---- MODULE Spec2Model ----
(***************************************************************************)
(* Model of src/Extract_Media.py: class AudioSubtitleExtractor.            *)
(*                                                                         *)
(* Units.  Every float number of seconds is modelled as a whole number of  *)
(* milliseconds (video_length, audio_time, transcribe_time, segment start  *)
(* and end).  The rounded fields of the metadata record are whole numbers  *)
(* of hundredths of a second.  Strings that the code builds or edits are   *)
(* sequences of one-character strings.                                     *)
(*                                                                         *)
(* Line 71 computes int((seconds % 1) * 1000) in binary floating point.    *)
(* For an offset that is no binary fraction the product can fall just      *)
(* below the whole number and lose one millisecond (1.2 gives 199); the    *)
(* field stays within 0..999 either way.  The whole-millisecond            *)
(* arithmetic used here is exact for binary fractions, and the segment     *)
(* offsets of Segments are such offsets.                                   *)
(***************************************************************************)
EXTENDS Integers, Sequences, FiniteSets, TLC

VARIABLES
    pc,               \* position of run(): the stage that has last returned
    calls,            \* the stages run() has invoked, in order
    faults,           \* what went wrong inside each stage ("none" when nothing)
    transcriber_calls,\* number of calls of self.model.transcribe
    device,           \* self.device
    audioFile,        \* the file at self.audio_path
    subtitleFile,     \* the file at self.subtitle_path
    metadataFile,     \* the file at self.metadata_path
    fs0,              \* the three files as they were when run() was called
    video_length,     \* run()'s local video_length
    audio_time,       \* run()'s local audio_time
    result,           \* run()'s local result
    transcribe_time,  \* run()'s local transcribe_time
    subtitle_ret,     \* what save_subtitles returned
    meta_args,        \* the arguments of the last save_metadata call
    escaped,          \* an exception has left run()
    seconds,          \* the argument of a direct _format_timestamp call
    stamp             \* what that call returned

vars == <<pc, calls, faults, transcriber_calls, device, audioFile, subtitleFile,
          metadataFile, fs0, video_length, audio_time, result, transcribe_time,
          subtitle_ret, meta_args, escaped, seconds, stamp>>

(***************************************************************************)
(* Bounds of the model.                                                    *)
(***************************************************************************)
\* longest segment sequence the transcriber returns
MaxSegments == 2
\* largest elapsed time (ms) passed to a direct save_metadata call
MaxElapsedMs == 24

(***************************************************************************)
(* Strings.                                                                *)
(***************************************************************************)
DigitChars == <<"0", "1", "2", "3", "4", "5", "6", "7", "8", "9">>

Whitespace == {" ", "\n", "\t"}

\* str(n) for an int n >= 0
RECURSIVE Dec(_)
Dec(n) == IF n < 10 THEN <<DigitChars[n + 1]>>
          ELSE Dec(n \div 10) \o <<DigitChars[(n % 10) + 1]>>

\* the format spec :0w of an f-string, on the digits s of a non-negative int:
\* zero-fill up to a MINIMUM width w, never cut
RECURSIVE ZeroFill(_, _)
ZeroFill(s, w) == IF Len(s) >= w THEN s ELSE ZeroFill(<<"0">> \o s, w)

\* str.lstrip() and str.rstrip() with no argument
RECURSIVE LStrip(_)
LStrip(s) == IF s # <<>> /\ Head(s) \in Whitespace THEN LStrip(Tail(s)) ELSE s

RECURSIVE RStrip(_)
RStrip(s) == IF s # <<>> /\ s[Len(s)] \in Whitespace
             THEN RStrip(SubSeq(s, 1, Len(s) - 1)) ELSE s

\* str.strip()
Strip(s) == RStrip(LStrip(s))

(***************************************************************************)
(* _format_timestamp (lines 67-72), on s milliseconds.                     *)
(***************************************************************************)
\* int(seconds // 3600)
Hrs(s) == s \div 3600000

\* int((seconds % 3600) // 60)
Mins(s) == (s % 3600000) \div 60000

\* int(seconds % 60)
Secs(s) == (s % 60000) \div 1000

\* int((seconds % 1) * 1000)
Millis(s) == s % 1000

\* a faulty variant: the milliseconds field filled to 2 instead of 3
FormatTimestamp_ShortMillis(s) ==
    ZeroFill(Dec(Hrs(s)), 2) \o <<":">> \o ZeroFill(Dec(Mins(s)), 2) \o <<":">>
        \o ZeroFill(Dec(Secs(s)), 2) \o <<",">> \o ZeroFill(Dec(Millis(s)), 2)

\* f"{hrs:02}:{mins:02}:{secs:02},{millis:03}"
FormatTimestamp(s) ==
    ZeroFill(Dec(Hrs(s)), 2) \o <<":">> \o ZeroFill(Dec(Mins(s)), 2) \o <<":">>
        \o ZeroFill(Dec(Secs(s)), 2) \o <<",">> \o ZeroFill(Dec(Millis(s)), 3)

(***************************************************************************)
(* save_subtitles (lines 52-65).                                           *)
(***************************************************************************)
Arrow == <<" ", "-", "-", ">", " ">>

\* a faulty variant: the block numbered with enumerate's 0-based index
SubtitleBlock_ZeroBased(i, segment) ==
    Dec(i) \o <<"\n">>
        \o FormatTimestamp(segment.start) \o Arrow \o FormatTimestamp(segment.end)
        \o <<"\n">> \o Strip(segment.text) \o <<"\n", "\n">>

\* lines 57-60: what one iteration of the loop writes, i being enumerate's index
SubtitleBlock(i, segment) ==
    Dec(i + 1) \o <<"\n">>
        \o FormatTimestamp(segment.start) \o Arrow \o FormatTimestamp(segment.end)
        \o <<"\n">> \o Strip(segment.text) \o <<"\n", "\n">>

\* what the loop of line 56 has written after its first k iterations
RECURSIVE Written(_, _)
Written(segments, k) ==
    IF k = 0 THEN <<>>
    ELSE Written(segments, k - 1) \o SubtitleBlock(k - 1, segments[k])

\* a Python dict with string keys: its key set, and the value under 'segments'
EmptyDict == [keys |-> {}, segments |-> <<>>]

\* a faulty variant: line 90 without its test
Truthy_Always(d) == TRUE

\* bool(d) of a dict d, the test of line 90
Truthy(d) == d.keys # {}

NoFile == [exists |-> FALSE, text |-> <<>>]

TextFile(t) == [exists |-> TRUE, text |-> t]

SubtitlePath == "subtitle_path"

\* The ways the try block of save_subtitles can go: "open" is open() raising,
\* "write" is f.write raising in iteration `at` (1-based), "none" is no I/O error.
SubtitleFaults(d) ==
    {[kind |-> "none", at |-> 0], [kind |-> "open", at |-> 0]}
        \cup {[kind |-> "write", at |-> k] : k \in 1..Len(d.segments)}

\* save_subtitles(d) under the I/O fault f: the file it leaves at subtitle_path
\* and the value it returns.  open(.., "w") truncates; the lookup
\* result['segments'] raises KeyError after the file was opened.
SaveSubtitlesOutcome(d, f, before) ==
    IF f.kind = "open" THEN [file |-> before, ret |-> "", fault |-> "open"]
    ELSE IF "segments" \notin d.keys
        THEN [file |-> TextFile(<<>>), ret |-> "", fault |-> "keyerror"]
    ELSE IF f.kind = "write"
        THEN [file |-> TextFile(Written(d.segments, f.at - 1)), ret |-> "",
              fault |-> "write"]
    ELSE [file |-> TextFile(Written(d.segments, Len(d.segments))),
          ret |-> SubtitlePath, fault |-> "none"]

(***************************************************************************)
(* save_metadata (lines 74-85).                                            *)
(***************************************************************************)
\* round(x, 2) of the float x ms / 1000, in hundredths.  Python rounds the
\* float's exact binary value, so at a decimal tie (x % 10 = 5) the direction
\* depends on how x / 1000 is represented: round(0.005, 2) = 0.01 and
\* round(0.015, 2) = 0.01.  `up` is that direction.
Round2(x, up) ==
    LET q == x \div 10
        r == x % 10
    IN  IF r > 5 \/ (r = 5 /\ up) THEN q + 1 ELSE q

\* os.path.basename(self.video_path), for the video_path of line 95
VideoFile == "maths.mp4"

\* a faulty variant: the total as the sum of the two rounded fields
MetadataRecord_SumOfRounded(vl, at, tt, dev, ups) ==
    [video_file |-> VideoFile,
     video_length_sec |-> Round2(vl, ups[1]),
     audio_extraction_time_sec |-> Round2(at, ups[2]),
     transcription_time_sec |-> Round2(tt, ups[3]),
     total_processing_time_sec |-> Round2(at, ups[2]) + Round2(tt, ups[3]),
     device_used |-> dev]

\* lines 75-82: the dict `metadata`; ups[i] is the tie direction of the i-th round
MetadataRecord(vl, at, tt, dev, ups) ==
    [video_file |-> VideoFile,
     video_length_sec |-> Round2(vl, ups[1]),
     audio_extraction_time_sec |-> Round2(at, ups[2]),
     transcription_time_sec |-> Round2(tt, ups[3]),
     total_processing_time_sec |-> Round2(at + tt, ups[4]),
     device_used |-> dev]

TieDirections == [1..4 -> BOOLEAN]

NoRecord == MetadataRecord(0, 0, 0, "", [i \in 1..4 |-> FALSE])

\* the file at metadata_path: absent, left by an earlier run ("stale"), cut short
\* by a failed write ("truncated"), or holding the record json.dump wrote
MetaFile(state, record) == [state |-> state, record |-> record]

\* lines 83-84 under the I/O fault f: "open" is open() raising (the file is as it
\* was), "write" is json.dump raising after open(.., "w") truncated the file
SaveMetadataFile(record, f, before) ==
    IF f = "open" THEN before
    ELSE IF f = "write" THEN MetaFile("truncated", NoRecord)
    ELSE MetaFile("written", record)

MetadataFaults == {"none", "open", "write"}

(***************************************************************************)
(* extract_audio (lines 23-35) and transcribe_audio (lines 37-50).         *)
(***************************************************************************)
\* "video": VideoFileClip raises (missing or unreadable file, codec error);
\* "no_audio": clip.audio is None, so line 29 raises AttributeError;
\* "write": write_audiofile raises (disk-write error)
ExtractFaults == {"none", "video", "no_audio", "write"}

\* clip.duration of the videos tried
Durations == {2000}

\* time.time() differences of a stage that succeeded
ElapsedSamples == {4, 12345}

\* The try block of extract_audio under fault f: the file left at audio_path and
\* the pair returned.  A write_audiofile that raises has either not created the
\* output yet or leaves what it wrote so far (`partial`); nothing removes it.
ExtractAudioOutcome(f, d, e, before, partial) ==
    IF f = "none" THEN [file |-> "extracted", ret |-> <<d, e>>]
    ELSE [file |-> IF f = "write" /\ partial THEN "partial" ELSE before,
          ret |-> <<0, 0>>]

\* segments the transcriber returns: start and end in ms with end >= start, and
\* the text as whisper gives it, not yet stripped
Segments ==
    {[start |-> 0, end |-> 1500, text |-> <<" ", "h", "e", "l", "l", "o", " ">>],
     [start |-> 1500, end |-> 3000, text |-> <<"w", "o", "r", "l", "d">>],
     [start |-> 1500, end |-> 1500, text |-> <<"\t", "a", " ", "b", "\n">>],
     [start |-> 3000, end |-> 3661500, text |-> <<" ">>]}

\* segment sequences of length n with non-decreasing start
RECURSIVE SegmentSeqsOfLen(_)
SegmentSeqsOfLen(n) ==
    IF n = 0 THEN {<<>>}
    ELSE UNION {{Append(s, g) : g \in {x \in Segments :
                                  s = <<>> \/ s[Len(s)].start <= x.start}} :
                s \in SegmentSeqsOfLen(n - 1)}

SegmentSeqs == UNION {SegmentSeqsOfLen(n) : n \in 0..MaxSegments}

\* what whisper's transcribe returns: a dict with keys text, segments, language
TranscriberResults ==
    {[keys |-> {"text", "segments", "language"}, segments |-> s] : s \in SegmentSeqs}

(***************************************************************************)
(* The state when run() is called (line 97), after __init__ (lines 9-21).  *)
(***************************************************************************)
NoFaults ==
    [extract_audio |-> "none", transcribe_audio |-> "none",
     save_subtitles |-> "none", save_metadata |-> "none"]

OldSubtitles == TextFile(<<"1", "\n", "o", "l", "d", "\n", "\n">>)

\* The output directory as makedirs(exist_ok=True) finds or makes it: empty,
\* holding only an audio file (left by an earlier run that stopped there, or by
\* an interrupted write), or holding the three files of an earlier run.
InitialFiles ==
    {[audio |-> "absent", subtitle |-> NoFile, metadata |-> MetaFile("absent", NoRecord)],
     [audio |-> "stale", subtitle |-> NoFile, metadata |-> MetaFile("absent", NoRecord)],
     [audio |-> "stale", subtitle |-> OldSubtitles,
      metadata |-> MetaFile("stale", NoRecord)]}

\* line 20
Devices == {"cuda", "cpu"}

\* the extractor and run()'s locals before line 88
Constructed ==
    /\ pc = "Init"
    /\ calls = <<>>
    /\ faults = NoFaults
    /\ transcriber_calls = 0
    /\ device \in Devices
    /\ fs0 \in InitialFiles
    /\ audioFile = fs0.audio
    /\ subtitleFile = fs0.subtitle
    /\ metadataFile = fs0.metadata
    /\ video_length = 0
    /\ audio_time = 0
    /\ result = EmptyDict
    /\ transcribe_time = 0
    /\ subtitle_ret = "unset"
    /\ meta_args = <<>>
    /\ escaped = FALSE

Init ==
    /\ Constructed
    /\ seconds = 0
    /\ stamp = <<>>

(***************************************************************************)
(* run() (lines 87-92), one action per stage it calls.                     *)
(***************************************************************************)
\* a faulty variant: run() calling extract_audio again after it reported a failure
ExtractAudio_Retry ==
    /\ pc = "Init"
    /\ \E f \in ExtractFaults, d \in Durations, e \in ElapsedSamples, partial \in BOOLEAN :
        LET o == ExtractAudioOutcome(f, d, e, audioFile, partial)
        IN  /\ audioFile' = o.file
            /\ video_length' = o.ret[1]
            /\ audio_time' = o.ret[2]
            /\ faults' = [faults EXCEPT !.extract_audio = f]
            /\ pc' = IF f = "none" THEN "AudioExtracted" ELSE "Init"
    /\ calls' = Append(calls, "extract_audio")
    /\ UNCHANGED <<transcriber_calls, device, subtitleFile, metadataFile, fs0, result,
                   transcribe_time, subtitle_ret, meta_args, escaped, seconds, stamp>>

\* line 88: video_length, audio_time = self.extract_audio()
ExtractAudio ==
    /\ pc = "Init"
    /\ \E f \in ExtractFaults, d \in Durations, e \in ElapsedSamples, partial \in BOOLEAN :
        LET o == ExtractAudioOutcome(f, d, e, audioFile, partial)
        IN  /\ audioFile' = o.file
            /\ video_length' = o.ret[1]
            /\ audio_time' = o.ret[2]
            /\ faults' = [faults EXCEPT !.extract_audio = f]
    /\ calls' = Append(calls, "extract_audio")
    /\ pc' = "AudioExtracted"
    /\ UNCHANGED <<transcriber_calls, device, subtitleFile, metadataFile, fs0, result,
                   transcribe_time, subtitle_ret, meta_args, escaped, seconds, stamp>>

\* line 89: result, transcribe_time = self.transcribe_audio()
\* os.path.exists (line 41) is true of any file at audio_path, whoever wrote it.
TranscribeAudio ==
    /\ pc = "AudioExtracted"
    /\ IF audioFile = "absent"
       THEN /\ result' = EmptyDict
            /\ transcribe_time' = 0
            /\ faults' = [faults EXCEPT !.transcribe_audio = "missing_audio"]
            /\ UNCHANGED transcriber_calls
       ELSE /\ transcriber_calls' = transcriber_calls + 1
            /\ \/ /\ result' = EmptyDict
                  /\ transcribe_time' = 0
                  /\ faults' = [faults EXCEPT !.transcribe_audio = "model"]
               \/ \E r \in TranscriberResults, e \in ElapsedSamples :
                     /\ result' = r
                     /\ transcribe_time' = e
                     /\ faults' = [faults EXCEPT !.transcribe_audio = "none"]
    /\ calls' = Append(calls, "transcribe_audio")
    /\ pc' = "Transcribed"
    /\ UNCHANGED <<device, audioFile, subtitleFile, metadataFile, fs0, video_length,
                   audio_time, subtitle_ret, meta_args, escaped, seconds, stamp>>

\* line 90, the test false: run() returns
SkipWriters ==
    /\ pc = "Transcribed"
    /\ ~Truthy(result)
    /\ pc' = "Aborted"
    /\ UNCHANGED <<calls, faults, transcriber_calls, device, audioFile, subtitleFile,
                   metadataFile, fs0, video_length, audio_time, result, transcribe_time,
                   subtitle_ret, meta_args, escaped, seconds, stamp>>

\* a faulty variant: save_subtitles without its try/except
SaveSubtitles_Uncaught ==
    /\ pc = "Transcribed"
    /\ Truthy(result)
    /\ \E f \in SubtitleFaults(result) :
        LET o == SaveSubtitlesOutcome(result, f, subtitleFile)
        IN  /\ subtitleFile' = o.file
            /\ subtitle_ret' = IF o.fault = "none" THEN o.ret ELSE "unset"
            /\ faults' = [faults EXCEPT !.save_subtitles = o.fault]
            /\ escaped' = (o.fault # "none")
            /\ pc' = IF o.fault = "none" THEN "SubtitlesSaved" ELSE "Raised"
    /\ calls' = Append(calls, "save_subtitles")
    /\ UNCHANGED <<transcriber_calls, device, audioFile, metadataFile, fs0, video_length,
                   audio_time, result, transcribe_time, meta_args, seconds, stamp>>

\* a faulty variant: run() returning when save_subtitles reports a failure
SaveSubtitles_StopOnFailure ==
    /\ pc = "Transcribed"
    /\ Truthy(result)
    /\ \E f \in SubtitleFaults(result) :
        LET o == SaveSubtitlesOutcome(result, f, subtitleFile)
        IN  /\ subtitleFile' = o.file
            /\ subtitle_ret' = o.ret
            /\ faults' = [faults EXCEPT !.save_subtitles = o.fault]
            /\ pc' = IF o.ret = "" THEN "Aborted" ELSE "SubtitlesSaved"
    /\ calls' = Append(calls, "save_subtitles")
    /\ UNCHANGED <<transcriber_calls, device, audioFile, metadataFile, fs0, video_length,
                   audio_time, result, transcribe_time, meta_args, escaped, seconds, stamp>>

\* lines 90-91: the test true, then self.save_subtitles(result); the value
\* returned is dropped, so line 92 follows whatever it is
SaveSubtitles ==
    /\ pc = "Transcribed"
    /\ Truthy(result)
    /\ \E f \in SubtitleFaults(result) :
        LET o == SaveSubtitlesOutcome(result, f, subtitleFile)
        IN  /\ subtitleFile' = o.file
            /\ subtitle_ret' = o.ret
            /\ faults' = [faults EXCEPT !.save_subtitles = o.fault]
    /\ calls' = Append(calls, "save_subtitles")
    /\ pc' = "SubtitlesSaved"
    /\ UNCHANGED <<transcriber_calls, device, audioFile, metadataFile, fs0, video_length,
                   audio_time, result, transcribe_time, meta_args, escaped, seconds, stamp>>

\* line 92: self.save_metadata(video_length, audio_time, transcribe_time); it has
\* no try/except, so an I/O error leaves run()
SaveMetadata ==
    /\ pc = "SubtitlesSaved"
    /\ \E f \in MetadataFaults, ups \in TieDirections :
        /\ metadataFile' =
              SaveMetadataFile(
                  MetadataRecord(video_length, audio_time, transcribe_time, device, ups),
                  f, metadataFile)
        /\ faults' = [faults EXCEPT !.save_metadata = f]
        /\ escaped' = (f # "none")
        /\ pc' = IF f = "none" THEN "Done" ELSE "Raised"
    /\ meta_args' = <<video_length, audio_time, transcribe_time>>
    /\ calls' = Append(calls, "save_metadata")
    /\ UNCHANGED <<transcriber_calls, device, audioFile, subtitleFile, fs0, video_length,
                   audio_time, result, transcribe_time, subtitle_ret, seconds, stamp>>

Next ==
    \/ ExtractAudio
    \/ TranscribeAudio
    \/ SkipWriters
    \/ SaveSubtitles
    \/ SaveMetadata

Spec == Init /\ [][Next]_vars

(***************************************************************************)
(* Properties of run().                                                    *)
(***************************************************************************)
StageOrder == <<"extract_audio", "transcribe_audio", "save_subtitles", "save_metadata">>

Terminal == pc \in {"Aborted", "Done", "Raised"}

\* extract_audio has returned (0.0, 0.0)
ExtractSentinel == Len(calls) >= 1 /\ video_length = 0 /\ audio_time = 0

\* transcribe_audio has returned ({}, 0.0)
TranscribeSentinel == Len(calls) >= 2 /\ result = EmptyDict /\ transcribe_time = 0

\* transcribe_audio has returned a result with no segments
NoSegments ==
    Len(calls) >= 2 /\ ("segments" \notin result.keys \/ result.segments = <<>>)

SubtitleUntouched == subtitleFile = fs0.subtitle

MetadataUntouched == metadataFile = fs0.metadata

\* C1: in every run whose transcription yields no segments (the sentinel {} or a
\* result whose segment sequence is empty or absent), run() creates neither the
\* subtitle file nor the metadata file, and no exception leaves run().
C1_NoSegmentsNoFiles ==
    NoSegments => SubtitleUntouched /\ MetadataUntouched /\ ~escaped

\* C2 as stated: after ANY stage returns its failure sentinel (extract_audio
\* (0.0, 0.0), transcribe_audio ({}, 0.0), save_subtitles "") no later stage of
\* the run executes and no further output file is written.
C2_AbortOnAnySentinel ==
    /\ ExtractSentinel =>
          calls = <<"extract_audio">> /\ SubtitleUntouched /\ MetadataUntouched
    /\ TranscribeSentinel =>
          Len(calls) = 2 /\ SubtitleUntouched /\ MetadataUntouched
    /\ subtitle_ret = "" => Len(calls) = 3 /\ MetadataUntouched

\* C2 amended: run() stops early exactly when transcribe_audio returns ({}, 0.0):
\* then no later stage executes, no output file is written and the run ends in
\* Aborted.  After extract_audio returns (0.0, 0.0) transcribe_audio still runs,
\* and after save_subtitles returns "" save_metadata still runs.
C2_AbortOnlyOnTranscribeSentinel ==
    /\ TranscribeSentinel =>
          /\ calls = <<"extract_audio", "transcribe_audio">>
          /\ pc \in {"Transcribed", "Aborted"}
          /\ SubtitleUntouched /\ MetadataUntouched
    /\ pc = "Aborted" => TranscribeSentinel
    /\ (ExtractSentinel /\ Terminal) =>
          Len(calls) >= 2 /\ calls[2] = "transcribe_audio"
    /\ (subtitle_ret = "" /\ Terminal) =>
          Len(calls) = 4 /\ calls[4] = "save_metadata"

C2_Witness ==
    pc = "Aborted" /\ TranscribeSentinel /\ faults.transcribe_audio = "model"

\* C3: a decoder failure in extract_audio, a missing audio file or a transcriber
\* failure in transcribe_audio and a write failure in save_subtitles each make the
\* stage return its sentinel and raise nothing; an exception leaves run() exactly
\* when the write of save_metadata fails, and it ends the run.
C3_OnlyMetadataRaises ==
    /\ (Len(calls) >= 1 /\ faults.extract_audio # "none") =>
          video_length = 0 /\ audio_time = 0
    /\ (Len(calls) >= 2 /\ faults.transcribe_audio # "none") =>
          result = EmptyDict /\ transcribe_time = 0
    /\ (Len(calls) >= 3 /\ faults.save_subtitles # "none") => subtitle_ret = ""
    /\ escaped <=> faults.save_metadata # "none"
    /\ escaped <=> pc = "Raised"
    /\ escaped => calls = StageOrder /\ ~ENABLED Next

C3_Witness ==
    /\ escaped
    /\ faults.extract_audio = "write"
    /\ faults.save_subtitles = "write"
    /\ faults.save_metadata = "write"

\* C4: when the result is non-empty and the subtitle write fails (at open or at
\* any segment), save_subtitles returns "" and run() still calls save_metadata,
\* which writes the metadata file (unless its own write fails, C3) although no
\* complete subtitle file was produced.
C4_MetadataAfterSubtitleFailure ==
    /\ (Len(calls) >= 3 /\ faults.save_subtitles # "none") =>
          /\ subtitle_ret = ""
          /\ Truthy(result)
          /\ subtitleFile # TextFile(Written(result.segments, Len(result.segments)))
    /\ (pc = "SubtitlesSaved" /\ subtitle_ret = "") => ENABLED SaveMetadata
    /\ (subtitle_ret = "" /\ Terminal) =>
          /\ calls = StageOrder
          /\ faults.save_metadata = "none" =>
                pc = "Done" /\ metadataFile.state = "written"

C4_Witness ==
    /\ pc = "Done"
    /\ faults.save_subtitles = "write"
    /\ subtitle_ret = ""
    /\ metadataFile.state = "written"
    /\ fs0.metadata.state = "absent"

\* C5: whenever extract_audio returns the sentinel (0.0, 0.0), for any decoder
\* failure, the file at audio_path is as it was before the call.
C5_NoAudioWriteOnFailure == ExtractSentinel => audioFile = fs0.audio

\* C10: in a run where extract_audio returned (0.0, 0.0) the transcriber is not
\* called and no subtitle or metadata file is written, whatever the files were
\* when the run began.
C10_FailedExtractionStopsTranscription ==
    ExtractSentinel =>
        transcriber_calls = 0 /\ SubtitleUntouched /\ MetadataUntouched

\* str.strip(), said without recursion: the span from the first to the last
\* character that is not whitespace
Stripped(s) ==
    LET keep == {i \in 1..Len(s) : s[i] \notin Whitespace}
    IN  IF keep = {} THEN <<>>
        ELSE SubSeq(s, CHOOSE i \in keep : \A j \in keep : i <= j,
                       CHOOSE i \in keep : \A j \in keep : i >= j)

\* block i (1-based) of the subtitle file for segment g
ExpectedBlock(i, g) ==
    Dec(i) \o <<"\n">> \o FormatTimestamp(g.start) \o Arrow \o FormatTimestamp(g.end)
        \o <<"\n">> \o Stripped(g.text) \o <<"\n", "\n">>

\* blocks from..n, in order
RECURSIVE ExpectedBlocks(_, _)
ExpectedBlocks(segments, from) ==
    IF from > Len(segments) THEN <<>>
    ELSE ExpectedBlock(from, segments[from]) \o ExpectedBlocks(segments, from + 1)

\* C8: a successful save_subtitles of a non-empty segment sequence of length n
\* leaves a file holding exactly the n blocks, in order, block i being i, newline,
\* format(start_i) --> format(end_i), newline, the stripped text, blank line;
\* whatever the file held before is gone.
C8_SubtitleSerialization ==
    (Len(calls) >= 3 /\ subtitle_ret = SubtitlePath /\ result.segments # <<>>) =>
        /\ subtitleFile.exists
        /\ subtitleFile.text = ExpectedBlocks(result.segments, 1)

\* the file of the two segments (0.0, 1.5, " hello ") and (1.5, 3.0, "world")
HelloWorldSrt ==
    <<"1", "\n",
      "0", "0", ":", "0", "0", ":", "0", "0", ",", "0", "0", "0", " ", "-", "-", ">", " ", "0", "0", ":", "0", "0", ":", "0", "1", ",", "5", "0", "0", "\n",
      "h", "e", "l", "l", "o", "\n",
      "\n",
      "2", "\n",
      "0", "0", ":", "0", "0", ":", "0", "1", ",", "5", "0", "0", " ", "-", "-", ">", " ", "0", "0", ":", "0", "0", ":", "0", "3", ",", "0", "0", "0", "\n",
      "w", "o", "r", "l", "d", "\n",
      "\n">>

C8_Witness ==
    /\ subtitle_ret = SubtitlePath
    /\ fs0.subtitle = OldSubtitles
    /\ Len(result.segments) = 2
    /\ subtitleFile.text = HelloWorldSrt

\* C9: in every run extract_audio executes exactly once, then transcribe_audio
\* exactly once whatever extraction returned, then, only when the result is
\* non-empty, save_subtitles and after it save_metadata, once each; a stage starts
\* when the one before has returned, and none is retried or entered again.
C9_StageOrder ==
    /\ Len(calls) <= 4
    /\ calls = SubSeq(StageOrder, 1, Len(calls))
    /\ pc = "Init" <=> Len(calls) = 0
    /\ pc = "AudioExtracted" <=> Len(calls) = 1
    /\ pc \in {"Transcribed", "Aborted"} <=> Len(calls) = 2
    /\ pc = "SubtitlesSaved" <=> Len(calls) = 3
    /\ pc \in {"Done", "Raised"} <=> Len(calls) = 4
    /\ Len(calls) >= 3 => Truthy(result)
    /\ pc = "Aborted" => ~Truthy(result)
    /\ pc = "AudioExtracted" => ENABLED TranscribeAudio
    /\ (pc = "Transcribed" /\ Truthy(result)) => ENABLED SaveSubtitles /\ ~ENABLED SkipWriters
    /\ pc = "SubtitlesSaved" => ENABLED SaveMetadata
    /\ Terminal => ~ENABLED Next

C9_Witness ==
    pc = "Done" /\ calls = StageOrder /\ faults.extract_audio = "video"

(***************************************************************************)
(* _format_timestamp called on its own.                                    *)
(***************************************************************************)
HourSamples == {0, 1, 10, 99, 100, 101, 500}

\* offsets in ms around every field's carry, below and above 100 hours
TimestampInputs ==
    {h * 3600000 + m * 60000 + sec * 1000 + ms :
        h \in HourSamples, m \in {0, 1, 59}, sec \in {0, 1, 59},
        ms \in {0, 1, 125, 200, 500, 999}}

InitTimestamp ==
    /\ Constructed
    /\ device = "cpu"
    /\ fs0.audio = "absent"
    /\ seconds \in TimestampInputs
    /\ stamp = <<>>

\* stamp = self._format_timestamp(seconds)
FormatTimestampCall ==
    /\ stamp = <<>>
    /\ stamp' = FormatTimestamp(seconds)
    /\ UNCHANGED <<pc, calls, faults, transcriber_calls, device, audioFile, subtitleFile,
                   metadataFile, fs0, video_length, audio_time, result, transcribe_time,
                   subtitle_ret, meta_args, escaped, seconds>>

SpecTimestamp == InitTimestamp /\ [][FormatTimestampCall]_vars

IsDigit(c) == \E i \in 1..10 : DigitChars[i] = c

\* ^\d{2}:\d{2}:\d{2},\d{3}$
MatchesClockPattern(t) ==
    /\ Len(t) = 12
    /\ \A i \in {1, 2, 4, 5, 7, 8, 10, 11, 12} : IsDigit(t[i])
    /\ t[3] = ":" /\ t[6] = ":" /\ t[9] = ","

HundredHours == 100 * 3600000

\* the digit of value v
DigitOf(v) == DigitChars[v + 1]

\* the twelve characters HH:MM:SS,mmm of an offset of s ms below 100 hours
ClockDigits(s) ==
    LET h == s \div 3600000
        m == (s \div 60000) % 60
        c == (s \div 1000) % 60
        k == s % 1000
    IN  <<DigitOf(h \div 10), DigitOf(h % 10), ":",
          DigitOf(m \div 10), DigitOf(m % 10), ":",
          DigitOf(c \div 10), DigitOf(c % 10), ",",
          DigitOf(k \div 100), DigitOf((k \div 10) % 10), DigitOf(k % 10)>>

\* C6 as stated: for every offset s >= 0, offsets of 100 hours or more included,
\* _format_timestamp(s) matches ^\d{2}:\d{2}:\d{2},\d{3}$.
C6_FixedWidthAllOffsets == stamp # <<>> => MatchesClockPattern(stamp)

\* C6 amended: for every offset 0 <= s < 360000 s, _format_timestamp(s) matches
\* ^\d{2}:\d{2}:\d{2},\d{3}$; from 360000 s (100 hours) on the hours field has 3
\* or more digits and the string is longer, its last ten characters still being
\* :MM:SS,mmm.  Where the offset is a multiple of 1/8 s the digits are those of
\* the offset's hours, minutes, seconds and milliseconds.
C6_FixedWidthBelow100Hours ==
    stamp # <<>> =>
        /\ seconds < HundredHours =>
              /\ MatchesClockPattern(stamp)
              /\ seconds % 125 = 0 => stamp = ClockDigits(seconds)
        /\ seconds >= HundredHours =>
              /\ Len(stamp) > 12
              /\ \A i \in 1..(Len(stamp) - 10) : IsDigit(stamp[i])
              /\ MatchesClockPattern(<<"0", "0">> \o SubSeq(stamp, Len(stamp) - 9, Len(stamp)))

C6_Witness ==
    /\ seconds = 3661500
    /\ stamp = <<"0", "1", ":", "0", "1", ":", "0", "1", ",", "5", "0", "0">>

(***************************************************************************)
(* save_metadata over a range of elapsed times.                            *)
(***************************************************************************)
\* run() about to execute line 92 after a run without faults, the two clocks
\* having measured any elapsed times up to MaxElapsedMs
InitMetadata ==
    /\ pc = "SubtitlesSaved"
    /\ calls = SubSeq(StageOrder, 1, 3)
    /\ faults = NoFaults
    /\ transcriber_calls = 1
    /\ device = "cpu"
    /\ fs0 \in InitialFiles
    /\ fs0.audio = "absent"
    /\ audioFile = "extracted"
    /\ result \in TranscriberResults
    /\ Len(result.segments) = 1
    /\ result.segments[1].start = 0
    /\ subtitleFile = TextFile(Written(result.segments, 1))
    /\ metadataFile = fs0.metadata
    /\ video_length \in Durations
    /\ audio_time \in 0..MaxElapsedMs
    /\ transcribe_time \in 0..MaxElapsedMs
    /\ subtitle_ret = SubtitlePath
    /\ meta_args = <<>>
    /\ escaped = FALSE
    /\ seconds = 0
    /\ stamp = <<>>

SpecMetadata == InitMetadata /\ [][SaveMetadata]_vars

\* C7 as stated: the recorded total_processing_time_sec equals the sum of the two
\* recorded fields audio_extraction_time_sec and transcription_time_sec.
C7_TotalIsSumOfRecordedFields ==
    pc = "Done" =>
        metadataFile.record.total_processing_time_sec
            = metadataFile.record.audio_extraction_time_sec
                + metadataFile.record.transcription_time_sec

\* x hundredths is v ms rounded to 2 decimals: no hundredth is nearer to v
NearestHundredth(x, v) == 10 * x - v <= 5 /\ v - 10 * x <= 5

\* C7 amended: the recorded total_processing_time_sec is the raw sum
\* audio_time + transcribe_time rounded once to 2 decimals; the two other fields
\* are each time rounded on its own, and the total is within 0.01 of their sum
\* without having to equal it.
C7_TotalIsRoundedRawSum ==
    pc = "Done" =>
        LET rec == metadataFile.record
            at == meta_args[2]
            tt == meta_args[3]
            d == rec.total_processing_time_sec
                    - (rec.audio_extraction_time_sec + rec.transcription_time_sec)
        IN  /\ metadataFile.state = "written"
            /\ at = audio_time /\ tt = transcribe_time
            /\ NearestHundredth(rec.total_processing_time_sec, at + tt)
            /\ NearestHundredth(rec.audio_extraction_time_sec, at)
            /\ NearestHundredth(rec.transcription_time_sec, tt)
            /\ d \in {-1, 0, 1}

C7_Witness ==
    /\ pc = "Done"
    /\ audio_time = 4 /\ transcribe_time = 4
    /\ metadataFile.record.audio_extraction_time_sec = 0
    /\ metadataFile.record.transcription_time_sec = 0
    /\ metadataFile.record.total_processing_time_sec = 1

====
